---- MODULE Spec2Model ----
(***************************************************************************)
(* Model of the ETH investment dashboard: the risk manager                 *)
(* (eth_risk_manager.py) and the recommendation label of the technical     *)
(* analysis (eth_technical_analysis.py).                                   *)
(*                                                                         *)
(* Python floats are modelled as exact rationals [n, d] in lowest terms    *)
(* with d > 0; the record with d = 0 is the float NaN (it arises from      *)
(* pandas rolling windows that are not full).  A division of Python floats *)
(* by zero raises ZeroDivisionError, which every method of the risk        *)
(* manager catches in its `except Exception` clause.                       *)
(***************************************************************************)
EXTENDS Integers, Sequences, FiniteSets, TLC

VARIABLES
    portfolio_value,          \* ETHRiskManager.portfolio_value
    max_risk_per_trade,       \* ETHRiskManager.max_risk_per_trade
    max_portfolio_exposure,   \* ETHRiskManager.max_portfolio_exposure
    last,                     \* the latest call: its name, arguments, result
    position,                 \* an open position and its trailing-stop evaluations
    analysis,                 \* the latest result of analyze_price_data
    prices,                   \* the price series handed to the indicators
    trades,                   \* ETHPerformanceTracker.trades
    decisions,                \* ETHPerformanceTracker.decisions
    files,                    \* the contents of trades_file and decisions_file
    blob,                     \* the stored object eth_trades.json of the bucket
    requests                  \* the record_trade requests of the web application

vars == <<portfolio_value, max_risk_per_trade, max_portfolio_exposure,
          last, position, analysis, prices, trades, decisions, files,
          blob, requests>>

rm == <<portfolio_value, max_risk_per_trade, max_portfolio_exposure>>

tracker == <<trades, decisions, files>>

web == <<blob, requests>>

-----------------------------------------------------------------------------
(* Float arithmetic *)

Abs(x) == IF x < 0 THEN -x ELSE x

RECURSIVE GCD(_, _)
GCD(a, b) == IF b = 0 THEN a ELSE GCD(b, a % b)

Norm(n, d) ==
    IF d = 0 THEN [n |-> 0, d |-> 0]
    ELSE LET s == IF d < 0 THEN -1 ELSE 1
             g == GCD(Abs(n), Abs(d))
         IN  [n |-> (s * n) \div g, d |-> (s * d) \div g]

R(k) == [n |-> k, d |-> 1]
Frac(a, b) == Norm(a, b)
NaN == [n |-> 0, d |-> 0]
IsNaN(x) == x.d = 0
IsZero(x) == x.d # 0 /\ x.n = 0

RAdd(x, y) == IF IsNaN(x) \/ IsNaN(y) THEN NaN
              ELSE Norm(x.n * y.d + y.n * x.d, x.d * y.d)
RSub(x, y) == IF IsNaN(x) \/ IsNaN(y) THEN NaN
              ELSE Norm(x.n * y.d - y.n * x.d, x.d * y.d)
RMul(x, y) == IF IsNaN(x) \/ IsNaN(y) THEN NaN
              ELSE Norm(x.n * y.n, x.d * y.d)
\* x / y for y # 0 (the callers test the divisor first: y = 0 raises)
RDiv(x, y) == IF IsNaN(x) \/ IsNaN(y) THEN NaN
              ELSE Norm(x.n * y.d, x.d * y.n)
\* comparisons with NaN are false, as in IEEE 754
RLt(x, y) == ~IsNaN(x) /\ ~IsNaN(y) /\ x.n * y.d < y.n * x.d
RLe(x, y) == ~IsNaN(x) /\ ~IsNaN(y) /\ x.n * y.d <= y.n * x.d

\* the value None returned on the error paths
None == [none |-> TRUE]

-----------------------------------------------------------------------------
(* ETHRiskManager.calculate_position_size *)

\* line 60: the stop of a long position must lie below the entry
invalid_stop_reversed(entry_price, stop_loss_price) ==
    RLe(stop_loss_price, entry_price)

invalid_stop(entry_price, stop_loss_price) ==
    RLe(entry_price, stop_loss_price)

\* line 75: the risk-based size is above the exposure cap
exceeds_exposure_unchecked(position_size_dollars, max_position_dollars) ==
    FALSE

exceeds_exposure(position_size_dollars, max_position_dollars) ==
    RLt(max_position_dollars, position_size_dollars)

calculate_position_size(pv, mr, me, entry_price, stop_loss_price) ==
    LET risk_amount == RMul(pv, mr)
    IN  IF invalid_stop(entry_price, stop_loss_price) THEN None
        ELSE
        LET risk_per_coin == RSub(entry_price, stop_loss_price)
            raw_coins == RDiv(risk_amount, risk_per_coin)
            raw_dollars == RMul(raw_coins, entry_price)
            max_position_dollars == RMul(pv, me)
            clamp == exceeds_exposure(raw_dollars, max_position_dollars)
            position_size_dollars ==
                IF clamp THEN max_position_dollars ELSE raw_dollars
            position_size_coins ==
                IF clamp THEN RDiv(position_size_dollars, entry_price)
                ELSE raw_coins
        IN  IF IsZero(risk_per_coin)
            THEN None   \* ZeroDivisionError, line 67
            ELSE IF clamp /\ (IsZero(entry_price) \/ IsZero(pv) \/ IsZero(mr))
            THEN None   \* ZeroDivisionError, lines 78, 80, 83
            ELSE IF IsZero(pv)
            THEN None   \* ZeroDivisionError, line 98
            ELSE [position_size_coins |-> position_size_coins,
                  position_size_dollars |-> position_size_dollars,
                  risk_amount |-> risk_amount,
                  risk_per_coin |-> risk_per_coin,
                  portfolio_percentage |->
                      RDiv(position_size_dollars, pv),
                  max_position_dollars |-> max_position_dollars]

-----------------------------------------------------------------------------
(* ETHRiskManager.calculate_take_profit_targets *)

take_profit_target_from_risk(entry_price, risk, ratio) ==
    LET target_price == RMul(risk, ratio)
        profit == RSub(target_price, entry_price)
    IN  [risk_reward_ratio |-> ratio,
         target_price |-> target_price,
         profit_amount |-> profit,
         profit_percentage |-> RDiv(profit, entry_price)]

take_profit_target(entry_price, risk, ratio) ==
    LET target_price == RAdd(entry_price, RMul(risk, ratio))
        profit == RSub(target_price, entry_price)
    IN  [risk_reward_ratio |-> ratio,
         target_price |-> target_price,
         profit_amount |-> profit,
         profit_percentage |-> RDiv(profit, entry_price)]

calculate_take_profit_targets(entry_price, stop_loss_price, ratios) ==
    LET risk == RSub(entry_price, stop_loss_price)
    IN  IF IsZero(entry_price)
        THEN None   \* ZeroDivisionError, lines 258 and 272
        ELSE [entry_price |-> entry_price,
              stop_loss_price |-> stop_loss_price,
              risk_amount |-> risk,
              risk_percentage |-> RDiv(risk, entry_price),
              targets |-> [i \in 1..Len(ratios) |->
                              take_profit_target(entry_price, risk, ratios[i])]]

-----------------------------------------------------------------------------
(* ETHRiskManager.calculate_trailing_stop *)

\* lines 307-320: the stop trails the current price, never below the initial stop
trailing_stop_price_unclamped(current_price, initial_stop_price, trail_percentage) ==
    RSub(current_price, RMul(current_price, RDiv(trail_percentage, R(100))))

trailing_stop_price(current_price, initial_stop_price, trail_percentage) ==
    LET trail_amount == RMul(current_price, RDiv(trail_percentage, R(100)))
        trailing_stop == RSub(current_price, trail_amount)
    IN  IF RLt(initial_stop_price, trailing_stop)
        THEN trailing_stop ELSE initial_stop_price

calculate_trailing_stop(entry_price, current_price, initial_stop_price, trail_percentage) ==
    IF RLe(current_price, entry_price)
    THEN [entry_price |-> entry_price,
          current_price |-> current_price,
          trailing_stop_price |-> initial_stop_price,
          is_adjusted |-> FALSE]
    ELSE LET stop == trailing_stop_price(current_price, initial_stop_price,
                                         trail_percentage)
         IN  [entry_price |-> entry_price,
              current_price |-> current_price,
              initial_stop_price |-> initial_stop_price,
              trailing_stop_price |-> stop,
              trail_percentage |-> trail_percentage,
              trail_amount |->
                  RMul(current_price, RDiv(trail_percentage, R(100))),
              is_adjusted |-> RLt(initial_stop_price, stop)]

-----------------------------------------------------------------------------
(* ETHRiskManager.calculate_stop_loss                                      *)
(* A history is [present, price]: present = FALSE is historical_prices =   *)
(* None; price is the "price" column, a sequence of integers.              *)

AtrPeriod == 14
SupportMinLen == 30
SupportWindow == 5

Max2(a, b) == IF a < b THEN b ELSE a
Min2(a, b) == IF a < b THEN a ELSE b

\* row i (1-based, i >= 2) of true_range: rolling(2) high/low, close.shift()
true_range(p, i) ==
    LET high == Max2(p[i - 1], p[i])
        low == Min2(p[i - 1], p[i])
        prev_close == p[i - 1]
        tr1 == high - low
        tr2 == Abs(high - prev_close)
        tr3 == Abs(low - prev_close)
    IN  Max2(tr1, Max2(tr2, tr3))

RECURSIVE SumTR(_, _, _)
SumTR(p, lo, hi) ==
    IF lo > hi THEN 0 ELSE true_range(p, hi) + SumTR(p, lo, hi - 1)

\* true_range.rolling(window=14).mean().iloc[-1]: row 1 of true_range is NaN
\* (rolling(2) and shift() have no value there), and a window holding a NaN
\* has mean NaN
average_true_range(p) ==
    LET first == Len(p) - AtrPeriod + 1
    IN  IF first < 2 THEN NaN
        ELSE Frac(SumTR(p, first, Len(p)), AtrPeriod)

\* the local minima of lines 181-184, as 1-based positions
support_positions(p) ==
    {i \in (SupportWindow + 1)..(Len(p) - SupportWindow) :
        /\ \A k \in (i - SupportWindow)..(i - 1) : p[i] <= p[k]
        /\ \A k \in (i + 1)..(i + SupportWindow) : p[i] <= p[k]}

SetMax(S) == CHOOSE x \in S : \A y \in S : y <= x

stop_method(entry_price, stop_price) ==
    LET risk == RSub(entry_price, stop_price)
    IN  [stop_price |-> stop_price,
         risk_amount |-> risk,
         risk_percentage |-> RDiv(risk, entry_price)]

fixed_method(entry_price, fixed_percentage) ==
    stop_method(entry_price, RMul(entry_price, RSub(R(1), fixed_percentage)))

atr_method(entry_price, p, atr_multiplier) ==
    LET atr == average_true_range(p)
    IN  stop_method(entry_price, RSub(entry_price, RMul(atr, atr_multiplier)))

stop_methods(entry_price, history, atr_multiplier, fixed_percentage) ==
    LET p == history.price
        fixed == "fixed_percentage" :> fixed_method(entry_price, fixed_percentage)
        with_atr == history.present /\ Len(p) # 0 /\ Len(p) >= AtrPeriod
        valid_supports ==
            {p[i] : i \in {j \in support_positions(p) : RLt(R(p[j]), entry_price)}}
        with_support ==
            with_atr /\ Len(p) >= SupportMinLen /\ valid_supports # {}
    IN  fixed
        @@ (IF with_atr
            THEN "atr_based" :> atr_method(entry_price, p, atr_multiplier)
            ELSE <<>>)
        @@ (IF with_support
            THEN "support_based" :>
                     stop_method(entry_price, R(SetMax(valid_supports)))
            ELSE <<>>)

MaxRiskPct == Frac(1, 10)

recommended_method_support_first(methods) ==
    IF "support_based" \in DOMAIN methods
       /\ RLe(methods["support_based"].risk_percentage, MaxRiskPct)
    THEN "support_based"
    ELSE IF "atr_based" \in DOMAIN methods
            /\ RLe(methods["atr_based"].risk_percentage, MaxRiskPct)
    THEN "atr_based"
    ELSE "fixed_percentage"

recommended_method(methods) ==
    IF "atr_based" \in DOMAIN methods
       /\ RLe(methods["atr_based"].risk_percentage, MaxRiskPct)
    THEN "atr_based"
    ELSE IF "support_based" \in DOMAIN methods
            /\ RLe(methods["support_based"].risk_percentage, MaxRiskPct)
    THEN "support_based"
    ELSE "fixed_percentage"

stop_loss_fallback_none(entry_price, fixed_percentage) == None

\* the result built by the except clause, lines 219-234
stop_loss_fallback(entry_price, fixed_percentage) ==
    [entry_price |-> entry_price,
     methods |-> ("fixed_percentage" :>
         [stop_price |-> RMul(entry_price, RSub(R(1), fixed_percentage)),
          risk_amount |-> RMul(entry_price, fixed_percentage),
          risk_percentage |-> fixed_percentage]),
     recommended_method |-> "fixed_percentage",
     recommended_stop_price |->
         RMul(entry_price, RSub(R(1), fixed_percentage)),
     error |-> TRUE]

calculate_stop_loss(entry_price, history, atr_multiplier, fixed_percentage) ==
    IF IsZero(entry_price)
    THEN stop_loss_fallback(entry_price, fixed_percentage)  \* line 138 raises
    ELSE LET methods == stop_methods(entry_price, history, atr_multiplier,
                                     fixed_percentage)
             rec == recommended_method(methods)
         IN  [entry_price |-> entry_price,
              methods |-> methods,
              recommended_method |-> rec,
              recommended_stop_price |-> methods[rec].stop_price]

-----------------------------------------------------------------------------
(* ETHTechnicalAnalysis.analyze_price_data: the signal counts and the label *)

Half == Frac(1, 2)

RECURSIVE MinDistance(_, _)
MinDistance(levels, current_price) ==
    IF Len(levels) = 1 THEN Abs(current_price - levels[1])
    ELSE Min2(Abs(current_price - levels[1]),
              MinDistance(Tail(levels), current_price))

\* lines 311 and 313: a non-empty list with a level within 5% of the price
near_level(levels, current_price) ==
    /\ levels # <<>>
    /\ RLt(Frac(MinDistance(levels, current_price), current_price), Frac(5, 100))

buy_signals(rsi, macd_signal, ma_signal, support, current_price) ==
    LET s1 == IF RLt(rsi, R(30)) THEN R(1) ELSE R(0)
        s2 == IF macd_signal = "buy" THEN R(1) ELSE R(0)
        s3 == IF ma_signal = "golden_cross" THEN R(2)
              ELSE IF ma_signal = "death_cross" THEN R(0)
              ELSE IF ma_signal = "above" THEN Half ELSE R(0)
        s4 == IF near_level(support, current_price) THEN Half ELSE R(0)
    IN  RAdd(RAdd(s1, s2), RAdd(s3, s4))

sell_signals(rsi, macd_signal, ma_signal, resistance, current_price) ==
    LET s1 == IF RLt(rsi, R(30)) THEN R(0)
              ELSE IF RLt(R(70), rsi) THEN R(1) ELSE R(0)
        s2 == IF macd_signal = "buy" THEN R(0)
              ELSE IF macd_signal = "sell" THEN R(1) ELSE R(0)
        s3 == IF ma_signal = "golden_cross" THEN R(0)
              ELSE IF ma_signal = "death_cross" THEN R(2)
              ELSE IF ma_signal = "above" THEN R(0)
              ELSE IF ma_signal = "below" THEN Half ELSE R(0)
        s4 == IF near_level(resistance, current_price) THEN Half ELSE R(0)
    IN  RAdd(RAdd(s1, s2), RAdd(s3, s4))

recommendation_without_comparison(buy, sell) ==
    IF RLe(R(2), buy)
    THEN IF RLe(R(3), buy) THEN "STRONG BUY" ELSE "BUY"
    ELSE IF RLe(R(2), sell)
    THEN IF RLe(R(3), sell) THEN "STRONG SELL" ELSE "SELL"
    ELSE "HOLD"

recommendation(buy, sell) ==
    IF RLe(R(2), buy) /\ RLt(sell, buy)
    THEN IF RLe(R(3), buy) THEN "STRONG BUY" ELSE "BUY"
    ELSE IF RLe(R(2), sell) /\ RLt(buy, sell)
    THEN IF RLe(R(3), sell) THEN "STRONG SELL" ELSE "SELL"
    ELSE "HOLD"

-----------------------------------------------------------------------------
(* Bounds and input sets *)

MaxAmp == 2          \* history amplitudes are 100 * (0..MaxAmp)
MaxTrailCalls == 3   \* trailing-stop evaluations of one position

PortfolioValues == {R(-10000), R(0), R(1000), R(10000)}
RiskFractions == {R(0), Frac(1, 100), Frac(2, 100)}
ExposureFractions == {Frac(25, 100), Frac(50, 100)}
EntryPrices == {R(0), R(100), R(3000)}
StopPrices == {R(0), R(90), R(2700), R(2800), R(3000), R(3100)}
DefaultRatios == <<Frac(3, 2), Frac(5, 2), Frac(7, 2)>>
RatioLists == {DefaultRatios, <<>>, <<R(2)>>, <<Frac(7, 2), Frac(3, 2)>>}

\* a V-shaped history: falls by amp a step to `base` at position pos, then
\* rises by amp a step (amp = 0 is a flat history)
Hist(len, base, amp, pos) ==
    [present |-> TRUE,
     price |-> [i \in 1..len |-> base + amp * Abs(i - pos)]]
NoHistory == [present |-> FALSE, price |-> <<>>]
HistLens == {0, 13, 14, 15, 29, 30, 31}
HistBases == {2600, 2900, 3000}
HistAmps == {100 * k : k \in 0..MaxAmp}
HistPositions == {3, 16}
Histories ==
    {NoHistory} \cup
    {Hist(len, base, amp, pos) :
        len \in HistLens, base \in HistBases, amp \in HistAmps,
        pos \in HistPositions}

TrailEntries == {R(3000)}
TrailInitialStops == {R(2800), R(2990), R(3050)}
TrailPercentages == {Frac(1, 2), R(10), R(150)}
CurrentPrices == {R(2900), R(3000), R(3001), R(3200), R(3500)}

RsiValues == {R(20), R(30), R(50), R(70), R(80)}
MacdSignals == {"buy", "sell", "neutral"}
MaSignals == {"golden_cross", "death_cross", "above", "below",
              "insufficient_data"}
SupportLists == {<<>>, <<96>>, <<95, 90>>}
ResistanceLists == {<<>>, <<104>>, <<105, 120>>}
AnalysisPrices == {100}

-----------------------------------------------------------------------------
(* State *)

NoPosition == [open |-> FALSE]
NoAnalysis == [empty |-> TRUE]
NoFile == [exists |-> FALSE]
\* the requests the web application is serving, none of them started
Requests == {"r1", "r2"}
NoRequests == [r \in Requests |-> [pc |-> "idle"]]
NoFiles == [trades |-> NoFile, decisions |-> NoFile]

Init ==
    /\ portfolio_value = R(10000)
    /\ max_risk_per_trade = Frac(2, 100)
    /\ max_portfolio_exposure = Frac(25, 100)
    /\ last = [op |-> "init"]
    /\ position = NoPosition
    /\ analysis = NoAnalysis
    /\ prices = <<>>
    /\ trades = <<>>
    /\ decisions = <<>>
    /\ files = NoFiles
    /\ blob = NoFile
    /\ requests = NoRequests

-----------------------------------------------------------------------------
(* The risk manager driven by the dashboard *)

\* ETHInvestmentDashboard.update_config, ETHRiskManager.update_portfolio_value
UpdateConfig ==
    /\ \/ \E v \in PortfolioValues :
             /\ portfolio_value' = v
             /\ last' = [op |-> "update_config", key |-> "portfolio_value",
                         value |-> v]
             /\ UNCHANGED <<max_risk_per_trade, max_portfolio_exposure>>
       \/ \E v \in RiskFractions :
             /\ max_risk_per_trade' = v
             /\ last' = [op |-> "update_config", key |-> "max_risk_per_trade",
                         value |-> v]
             /\ UNCHANGED <<portfolio_value, max_portfolio_exposure>>
       \/ \E v \in ExposureFractions :
             /\ max_portfolio_exposure' = v
             /\ last' = [op |-> "update_config",
                         key |-> "max_portfolio_exposure", value |-> v]
             /\ UNCHANGED <<portfolio_value, max_risk_per_trade>>
    /\ UNCHANGED <<position, analysis, prices, tracker, web>>

CalculatePositionSize ==
    /\ \E e \in EntryPrices, s \in StopPrices :
          last' = [op |-> "calculate_position_size", entry |-> e, stop |-> s,
                   ret |-> calculate_position_size(portfolio_value,
                               max_risk_per_trade, max_portfolio_exposure, e, s)]
    /\ UNCHANGED <<rm, position, analysis, prices, tracker, web>>

CalculateTakeProfitTargets ==
    /\ \E e \in EntryPrices, s \in StopPrices, ratios \in RatioLists :
          last' = [op |-> "calculate_take_profit_targets", entry |-> e,
                   stop |-> s, ratios |-> ratios,
                   ret |-> calculate_take_profit_targets(e, s, ratios)]
    /\ UNCHANGED <<rm, position, analysis, prices, tracker, web>>

Next == UpdateConfig \/ CalculatePositionSize \/ CalculateTakeProfitTargets

Spec == Init /\ [][Next]_vars

-----------------------------------------------------------------------------
(* test_risk_manager: stop-loss, then the position sized on its stop *)

TestStopLoss ==
    /\ last.op = "init"
    /\ \E e \in EntryPrices, h \in Histories :
          last' = [op |-> "calculate_stop_loss", entry |-> e, history |-> h,
                   ret |-> calculate_stop_loss(e, h, R(2), Frac(5, 100))]
    /\ UNCHANGED <<rm, position, analysis, prices, tracker, web>>

TestPositionSize ==
    /\ last.op = "calculate_stop_loss"
    /\ last' = [op |-> "test_position_size", entry |-> last.entry,
                history |-> last.history, stop_loss |-> last.ret,
                ret |-> calculate_position_size(portfolio_value,
                            max_risk_per_trade, max_portfolio_exposure,
                            last.entry, last.ret.recommended_stop_price)]
    /\ UNCHANGED <<rm, position, analysis, prices, tracker, web>>

NextTest == TestStopLoss \/ TestPositionSize

SpecTest == Init /\ [][NextTest]_vars

-----------------------------------------------------------------------------
(* A position whose trailing stop is evaluated as the price moves *)

OpenPosition ==
    /\ ~position.open
    /\ \E e \in TrailEntries, s \in TrailInitialStops, t \in TrailPercentages :
          position' = [open |-> TRUE, entry |-> e, initial_stop |-> s,
                       trail_percentage |-> t, evals |-> <<>>]
    /\ UNCHANGED <<rm, last, analysis, prices, tracker, web>>

CalculateTrailingStop ==
    /\ position.open
    /\ Len(position.evals) < MaxTrailCalls
    /\ \E c \in CurrentPrices :
          position' = [position EXCEPT !.evals = Append(@,
              calculate_trailing_stop(position.entry, c,
                  position.initial_stop, position.trail_percentage))]
    /\ UNCHANGED <<rm, last, analysis, prices, tracker, web>>

NextTrail == OpenPosition \/ CalculateTrailingStop

SpecTrail == Init /\ [][NextTrail]_vars

-----------------------------------------------------------------------------
(* analyze_price_data over the indicators' results *)

AnalyzePriceData ==
    /\ \E rsi \in RsiValues, macd \in MacdSignals, ma \in MaSignals,
          sup \in SupportLists, res \in ResistanceLists, cp \in AnalysisPrices :
          LET buy == buy_signals(rsi, macd, ma, sup, cp)
              sell == sell_signals(rsi, macd, ma, res, cp)
          IN  analysis' = [empty |-> FALSE, price |-> cp, rsi |-> rsi,
                           macd_signal |-> macd, ma_signal |-> ma,
                           support_levels |-> sup, resistance_levels |-> res,
                           buy_score |-> buy, sell_score |-> sell,
                           recommendation |-> recommendation(buy, sell)]
    /\ UNCHANGED <<rm, last, position, prices, tracker, web>>

\* df.empty: the analysis returns {}
AnalyzeEmpty ==
    /\ analysis' = NoAnalysis
    /\ UNCHANGED <<rm, last, position, prices, tracker, web>>

NextAnalysis == AnalyzePriceData \/ AnalyzeEmpty

SpecAnalysis == Init /\ [][NextAnalysis]_vars

-----------------------------------------------------------------------------
(* Position sizing *)

IsSizing == last.op = "calculate_position_size"

\* C1: calculate_position_size(entry, stop) with entry <= stop returns the
\* error value None instead of a sizing result, and the call leaves
\* portfolio_value, max_risk_per_trade and max_portfolio_exposure unchanged.
C1_InvalidStopFails ==
    [][(last'.op = "calculate_position_size" /\ RLe(last'.entry, last'.stop))
          => (last'.ret = None /\ UNCHANGED rm)]_vars

C1_Witness ==
    /\ IsSizing
    /\ RLe(last.entry, last.stop)
    /\ last.ret = None
    /\ portfolio_value = R(1000)

RawCoins == RDiv(RMul(portfolio_value, max_risk_per_trade), RSub(last.entry, last.stop))
RawDollars == RMul(RawCoins, last.entry)
ExposureCap == RMul(portfolio_value, max_portfolio_exposure)

SizingSucceeded ==
    /\ IsSizing
    /\ last.ret # None
    /\ RLt(last.stop, last.entry)
    /\ RLt(R(0), portfolio_value)
    /\ RLt(R(0), max_risk_per_trade)
    /\ RLt(R(0), max_portfolio_exposure)

IsSpecExample ==
    /\ IsSizing
    /\ last.entry = R(3000) /\ last.stop = R(2800)
    /\ portfolio_value = R(10000)
    /\ max_risk_per_trade = Frac(2, 100)
    /\ max_portfolio_exposure = Frac(25, 100)

\* C2: a successful sizing (entry > stop, positive portfolio value and
\* fractions) never has position_size_dollars above portfolio_value *
\* max_portfolio_exposure; when the raw risk-based size is above that cap,
\* dollars is the cap and coins is cap / entry (2500 and 2500/3000 for
\* entry 3000, stop 2800, portfolio 10000, risk 2%, exposure 25%); otherwise
\* the raw size is returned unchanged.
C2_ExposureClampWins ==
    /\ SizingSucceeded =>
          /\ RLe(last.ret.position_size_dollars, ExposureCap)
          /\ RLt(ExposureCap, RawDollars) =>
                /\ last.ret.position_size_dollars = ExposureCap
                /\ last.ret.position_size_coins = RDiv(ExposureCap, last.entry)
          /\ RLe(RawDollars, ExposureCap) =>
                /\ last.ret.position_size_dollars = RawDollars
                /\ last.ret.position_size_coins = RawCoins
    /\ IsSpecExample =>
          /\ last.ret # None
          /\ last.ret.position_size_dollars = R(2500)
          /\ last.ret.position_size_coins = Frac(2500, 3000)

C2_Witness ==
    /\ SizingSucceeded
    /\ IsSpecExample
    /\ RLt(ExposureCap, RawDollars)
    /\ last.ret.position_size_dollars = R(2500)

\* C10: position sizing returns the error value None whenever the configured
\* portfolio value is zero or negative, for every entry > stop.
C10_NonPositivePortfolioFails ==
    (IsSizing /\ RLe(portfolio_value, R(0)) /\ RLt(last.stop, last.entry))
        => last.ret = None

-----------------------------------------------------------------------------
(* Trailing stop *)

Evals == position.evals

PricesNonDecreasing ==
    \A i \in 1..(Len(Evals) - 1) :
        RLe(Evals[i].current_price, Evals[i + 1].current_price)

StopsNonDecreasing ==
    \A i \in 1..(Len(Evals) - 1) :
        RLe(Evals[i].trailing_stop_price, Evals[i + 1].trailing_stop_price)

\* C3: for a fixed entry, initial stop and trail percentage, over a sequence
\* of calculate_trailing_stop calls whose current price never falls, the
\* returned trailing_stop_price never decreases from one call to the next,
\* and it equals the initial stop while current <= entry.
C3_TrailingStopMonotoneOnRisingPrice ==
    position.open =>
        /\ PricesNonDecreasing => StopsNonDecreasing
        /\ \A i \in 1..Len(Evals) :
              RLe(Evals[i].current_price, position.entry)
                  => Evals[i].trailing_stop_price = position.initial_stop

C3_Witness ==
    /\ position.open
    /\ Len(Evals) = 3
    /\ PricesNonDecreasing
    /\ RLe(Evals[1].current_price, position.entry)
    /\ Evals[1].trailing_stop_price = position.initial_stop
    /\ RLt(Evals[1].trailing_stop_price, Evals[2].trailing_stop_price)
    /\ RLt(Evals[2].trailing_stop_price, Evals[3].trailing_stop_price)

\* C4: for a given position the trailing stop is non-decreasing across
\* successive evaluations for any sequence of current prices, also when the
\* price rises above entry and then falls.
C4_TrailingStopNeverMovesDown ==
    position.open => StopsNonDecreasing

-----------------------------------------------------------------------------
(* Take-profit targets *)

IsTakeProfit == last.op = "calculate_take_profit_targets"

TargetsMatchRatios ==
    /\ last.ret # None
    /\ Len(last.ret.targets) = Len(last.ratios)
    /\ \A i \in 1..Len(last.ratios) :
          /\ last.ret.targets[i].risk_reward_ratio = last.ratios[i]
          /\ last.ret.targets[i].target_price =
                 RAdd(last.entry, RMul(RSub(last.entry, last.stop), last.ratios[i]))

IsTakeProfitExample ==
    /\ IsTakeProfit
    /\ last.entry = R(3000) /\ last.stop = R(2800)
    /\ last.ratios = DefaultRatios

ExampleTargets ==
    /\ last.ret # None
    /\ [i \in 1..3 |-> last.ret.targets[i].target_price]
           = <<R(3300), R(3500), R(3700)>>

\* C8 as claimed: calculate_take_profit_targets returns one target per ratio,
\* in the order of the ratios, with target_price = entry + (entry - stop) *
\* ratio; entry 3000, stop 2800, ratios [1.5, 2.5, 3.5] give 3300, 3500, 3700.
C8_Original ==
    /\ IsTakeProfit => TargetsMatchRatios
    /\ IsTakeProfitExample => ExampleTargets

\* C8 as amended: the same for every entry price other than 0; with entry
\* price 0 the call returns the error value None.
C8_TargetsPerRatio ==
    /\ (IsTakeProfit /\ ~IsZero(last.entry)) => TargetsMatchRatios
    /\ (IsTakeProfit /\ IsZero(last.entry)) => last.ret = None
    /\ IsTakeProfitExample => ExampleTargets

C8_Witness ==
    /\ IsTakeProfitExample
    /\ TargetsMatchRatios
    /\ ExampleTargets

-----------------------------------------------------------------------------
(* Stop-loss methods *)

IsStopLoss == last.op = "calculate_stop_loss"

FixedPct == Frac(5, 100)
Methods == last.ret.methods
HasMethod(m) == m \in DOMAIN Methods
Qualifies(m) == HasMethod(m) /\ RLe(Methods[m].risk_percentage, MaxRiskPct)

\* C5: calculate_stop_loss returns a result, never None, for every entry
\* price and every history (absent, empty, short or long); the result holds
\* the fixed_percentage method with stop = entry * (1 - fixed_percentage),
\* its recommended_method is one of the methods present, and
\* recommended_stop_price is the stop price of that method.
C5_StopLossAlwaysHasResult ==
    IsStopLoss =>
        /\ last.ret # None
        /\ HasMethod("fixed_percentage")
        /\ Methods["fixed_percentage"].stop_price =
               RMul(last.entry, RSub(R(1), FixedPct))
        /\ HasMethod(last.ret.recommended_method)
        /\ ~IsNaN(last.ret.recommended_stop_price)
        /\ last.ret.recommended_stop_price =
               Methods[last.ret.recommended_method].stop_price

C5_Witness ==
    /\ IsStopLoss
    /\ IsZero(last.entry)
    /\ last.history.present /\ Len(last.history.price) = 31
    /\ last.ret # None
    /\ DOMAIN Methods = {"fixed_percentage"}
    /\ last.ret.recommended_stop_price = R(0)

\* C6: the recommended method is atr_based whenever it was computed and its
\* risk percentage is <= 10%; otherwise support_based whenever it was
\* computed and its risk percentage is <= 10%; otherwise fixed_percentage.
\* So fixed_percentage is recommended only when neither other method
\* qualifies, and support_based never while a qualifying atr_based exists.
C6_MethodPreferenceOrder ==
    IsStopLoss =>
        /\ last.ret.recommended_method =
               IF Qualifies("atr_based") THEN "atr_based"
               ELSE IF Qualifies("support_based") THEN "support_based"
               ELSE "fixed_percentage"
        /\ last.ret.recommended_method = "fixed_percentage"
               => (~Qualifies("atr_based") /\ ~Qualifies("support_based"))
        /\ last.ret.recommended_method = "support_based"
               => ~Qualifies("atr_based")

C6_Witness ==
    /\ IsStopLoss
    /\ Qualifies("atr_based")
    /\ Qualifies("support_based")
    /\ last.ret.recommended_method = "atr_based"

\* C7: for every entry price > 0 and every price history,
\* calculate_position_size(entry, recommended_stop_price) on the stop that
\* calculate_stop_loss(entry, history) returned succeeds: the recommended
\* stop is strictly below the entry, also for flat histories.
C7_RecommendedStopSizes ==
    (last.op = "test_position_size" /\ RLt(R(0), last.entry)) =>
        /\ RLt(last.stop_loss.recommended_stop_price, last.entry)
        /\ last.ret # None

-----------------------------------------------------------------------------
(* Recommendation label *)

Buy == analysis.buy_score
Sell == analysis.sell_score
Label == analysis.recommendation

\* C9: the label is a function of (buyScore, sellScore) only: STRONG BUY iff
\* buy >= 3 and buy > sell; BUY iff 2 <= buy < 3 and buy > sell; STRONG SELL
\* iff sell >= 3 and sell > buy; SELL iff 2 <= sell < 3 and sell > buy; HOLD
\* in every other case.  One label is produced, and equal scores give HOLD.
C9_LabelFromScores ==
    ~analysis.empty =>
        LET strong_buy == RLe(R(3), Buy) /\ RLt(Sell, Buy)
            buy == RLe(R(2), Buy) /\ RLt(Buy, R(3)) /\ RLt(Sell, Buy)
            strong_sell == RLe(R(3), Sell) /\ RLt(Buy, Sell)
            sell == RLe(R(2), Sell) /\ RLt(Sell, R(3)) /\ RLt(Buy, Sell)
        IN  /\ Label \in {"STRONG BUY", "BUY", "HOLD", "SELL", "STRONG SELL"}
            /\ (Label = "STRONG BUY") <=> strong_buy
            /\ (Label = "BUY") <=> buy
            /\ (Label = "STRONG SELL") <=> strong_sell
            /\ (Label = "SELL") <=> sell
            /\ (Label = "HOLD") <=>
                   ~(strong_buy \/ buy \/ strong_sell \/ sell)
            /\ (Buy = Sell) => Label = "HOLD"

C9_Witness ==
    /\ ~analysis.empty
    /\ Buy = Sell
    /\ RLe(R(2), Buy)
    /\ Label = "HOLD"

-----------------------------------------------------------------------------
(* Technical indicators (eth_technical_analysis.py) on a price series *)

MaxSeriesLen == 7

SeriesPrices == {1, 2, 3}

\* the price series of the indicator calls: every series up to MaxSeriesLen
PriceSeries == UNION {[1..n -> SeriesPrices] : n \in 0..MaxSeriesLen}

InitSeries ==
    /\ portfolio_value = R(10000)
    /\ max_risk_per_trade = Frac(2, 100)
    /\ max_portfolio_exposure = Frac(25, 100)
    /\ last = [op |-> "init"]
    /\ position = NoPosition
    /\ analysis = NoAnalysis
    /\ prices \in PriceSeries
    /\ trades = <<>>
    /\ decisions = <<>>
    /\ files = NoFiles
    /\ blob = NoFile
    /\ requests = NoRequests

\* np.diff(prices)[i] for the 1-based index i
price_diff(p, i) == p[i + 1] - p[i]

\* np.sum(gains[:k]): the positive differences among the first k
RECURSIVE SumGains(_, _)
SumGains(p, k) ==
    IF k = 0 THEN 0
    ELSE SumGains(p, k - 1) + (IF price_diff(p, k) > 0 THEN price_diff(p, k) ELSE 0)

\* np.sum(losses[:k]): the absolute negative differences among the first k
RECURSIVE SumLosses(_, _)
SumLosses(p, k) ==
    IF k = 0 THEN 0
    ELSE SumLosses(p, k - 1) + (IF price_diff(p, k) < 0 THEN Abs(price_diff(p, k)) ELSE 0)

\* the differences calculate_rsi averages: all of them instead of gains[:window]
rsi_span_all(p, window) == Len(p) - 1

\* the differences calculate_rsi averages: gains[:window], losses[:window]
rsi_span(p, window) == window

calculate_rsi(p, window) ==
    IF Len(p) < window + 1 THEN R(50)
    ELSE LET k        == rsi_span(p, window)
             avg_gain == Frac(SumGains(p, k), k)
             avg_loss == Frac(SumLosses(p, k), k)
         IN  IF IsZero(avg_loss) THEN R(100)
             ELSE LET rs == RDiv(avg_gain, avg_loss)
                  IN  RSub(R(100), RDiv(R(100), RAdd(R(1), rs)))

DefaultRsiWindow == 14

RsiWindows == {2, 3, DefaultRsiWindow}

CalculateRsi ==
    /\ \E window \in RsiWindows :
          last' = [op |-> "calculate_rsi", prices |-> prices, window |-> window,
                   ret |-> calculate_rsi(prices, window)]
    /\ UNCHANGED <<rm, position, analysis, prices, tracker, web>>

NextRsi == CalculateRsi

SpecRsi == InitSeries /\ [][NextRsi]_vars

IsRsi == last.op = "calculate_rsi"

RsiGain == SumGains(last.prices, last.window)

RsiLoss == SumLosses(last.prices, last.window)

-----------------------------------------------------------------------------
(* MACD *)

\* pandas Series.ewm(span, adjust=False).mean(): its first t values
RECURSIVE ewm_mean(_, _, _)
ewm_mean(x, span, t) ==
    LET alpha == Frac(2, span + 1)
    IN  IF t = 0 THEN <<>>
        ELSE IF t = 1 THEN <<x[1]>>
        ELSE LET before == ewm_mean(x, span, t - 1)
             IN  Append(before, RAdd(RMul(RSub(R(1), alpha), before[t - 1]),
                                     RMul(alpha, x[t])))

\* pd.Series(prices)
prices_series(p) == [t \in 1..Len(p) |-> R(p[t])]

\* the series a - b
RECURSIVE series_minus(_, _, _)
series_minus(a, b, t) ==
    IF t = 0 THEN <<>> ELSE Append(series_minus(a, b, t - 1), RSub(a[t], b[t]))

\* macd_line = ema_fast - ema_slow
macd_line(p, fast_period, slow_period) ==
    series_minus(ewm_mean(prices_series(p), fast_period, Len(p)),
                 ewm_mean(prices_series(p), slow_period, Len(p)), Len(p))

\* signal_line = macd_line.ewm(span=signal_period, adjust=False).mean()
signal_line(macd, signal_period) == ewm_mean(macd, signal_period, Len(macd))

\* histogram = macd_line - signal_line
histogram(p, fast_period, slow_period, signal_period) ==
    LET macd == macd_line(p, fast_period, slow_period)
    IN  series_minus(macd, signal_line(macd, signal_period), Len(p))

\* the crossover test with a zero histogram counted as the opposite sign
macd_crossover_nonstrict(current_histogram, previous_histogram) ==
    IF RLt(R(0), current_histogram) /\ RLe(previous_histogram, R(0)) THEN "buy"
    ELSE IF RLt(current_histogram, R(0)) /\ RLe(R(0), previous_histogram) THEN "sell"
    ELSE "neutral"

\* the crossover test on the last two histogram values
macd_crossover(current_histogram, previous_histogram) ==
    IF RLt(R(0), current_histogram) /\ RLt(previous_histogram, R(0)) THEN "buy"
    ELSE IF RLt(current_histogram, R(0)) /\ RLt(R(0), previous_histogram) THEN "sell"
    ELSE "neutral"

calculate_macd(p, fast_period, slow_period, signal_period) ==
    IF Len(p) < slow_period + signal_period THEN [signal |-> "neutral"]
    ELSE LET n    == Len(p)
             macd == macd_line(p, fast_period, slow_period)
             sig  == signal_line(macd, signal_period)
             hist == histogram(p, fast_period, slow_period, signal_period)
         IN  [macd_line   |-> macd[n],
              signal_line |-> sig[n],
              histogram   |-> hist[n],
              signal      |-> IF n < 2 THEN "neutral"
                              ELSE macd_crossover(hist[n], hist[n - 1])]

DefaultMacdPeriods == <<12, 26, 9>>

\* fast, slow and signal periods of the calls
MacdPeriods == {<<1, 3, 3>>, DefaultMacdPeriods}

CalculateMacd ==
    /\ \E per \in MacdPeriods :
          last' = [op |-> "calculate_macd", prices |-> prices, periods |-> per,
                   ret |-> calculate_macd(prices, per[1], per[2], per[3])]
    /\ UNCHANGED <<rm, position, analysis, prices, tracker, web>>

\* dict.get(key, default)
Get(d, key, default) == IF key \in DOMAIN d THEN d[key] ELSE default

\* ETHInvestmentAdvisor.evaluate_macd_signal
evaluate_macd_signal(macd_data) ==
    LET macd  == Get(macd_data, "macd_line", R(0))
        sig   == Get(macd_data, "signal_line", R(0))
        h     == Get(macd_data, "histogram", R(0))
        cross == Get(macd_data, "signal", "neutral")
        prev  == Get(macd_data, "previous_histogram", R(0))
        mag(x) == IF RLt(x, R(0)) THEN RSub(R(0), x) ELSE x
    IN  IF cross = "buy"
        THEN IF RLt(macd, R(0)) /\ RLt(sig, R(0)) /\ RLt(R(0), h) THEN R(2) ELSE Frac(3, 2)
        ELSE IF cross = "sell"
        THEN IF RLt(R(0), macd) /\ RLt(R(0), sig) /\ RLt(h, R(0)) THEN R(-2) ELSE Frac(-3, 2)
        ELSE IF RLt(R(0), h) /\ RLt(mag(prev), h) THEN Frac(1, 2)
        ELSE IF RLt(h, R(0)) /\ RLt(mag(prev), mag(h)) THEN Frac(-1, 2)
        ELSE R(0)

\* the advisor evaluating the result calculate_macd has just returned
EvaluateMacdSignal ==
    /\ last.op = "calculate_macd"
    /\ last' = [op |-> "evaluate_macd_signal", prices |-> last.prices,
                periods |-> last.periods, macd_data |-> last.ret,
                ret |-> evaluate_macd_signal(last.ret)]
    /\ UNCHANGED <<rm, position, analysis, prices, tracker, web>>

NextMacd == CalculateMacd \/ EvaluateMacdSignal

SpecMacd == InitSeries /\ [][NextMacd]_vars

IsMacd == last.op = "calculate_macd"

MacdEnough == Len(last.prices) >= last.periods[2] + last.periods[3]

\* the histogram series of the call in `last`
Hist_ == histogram(last.prices, last.periods[1], last.periods[2], last.periods[3])

CurrentHistogram == Hist_[Len(last.prices)]

PreviousHistogram == Hist_[Len(last.prices) - 1]

\* C12: calculate_macd says buy exactly when the previous histogram is negative
\* and the current one positive, sell exactly when the previous is positive and
\* the current negative, neutral in every other case; with fewer than
\* slow_period + signal_period samples the result holds signal = neutral only.
C12_MacdCrossover ==
    IsMacd =>
        /\ ~MacdEnough => last.ret = [signal |-> "neutral"]
        /\ MacdEnough =>
              /\ last.ret.histogram = CurrentHistogram
              /\ last.ret.signal = "buy" <=>
                    RLt(PreviousHistogram, R(0)) /\ RLt(R(0), CurrentHistogram)
              /\ last.ret.signal = "sell" <=>
                    RLt(R(0), PreviousHistogram) /\ RLt(CurrentHistogram, R(0))
              /\ last.ret.signal \in {"buy", "sell", "neutral"}

\* a rising histogram leaving exactly zero: no crossover
C12_Witness ==
    /\ IsMacd /\ MacdEnough
    /\ IsZero(PreviousHistogram) /\ RLt(R(0), CurrentHistogram)
    /\ last.ret.signal = "neutral"

IsMacdVote == last.op = "evaluate_macd_signal"

Magnitude(x) == IF RLt(x, R(0)) THEN RSub(R(0), x) ELSE x

\* C16: without a fresh crossover the vote on a calculate_macd result is +0.5
\* (-0.5) only if the histogram is positive (negative) and larger in magnitude
\* than the previous histogram value, and 0 when the magnitude is shrinking or
\* unchanged; on a crossover it is +/-1.5, or +/-2.0 when both lines are below
\* zero (buy) or above zero (sell).
C16_MomentumNeedsGrowingHistogram ==
    (IsMacdVote /\ MacdEnough) =>
        LET d == last.macd_data
        IN  /\ (d.signal = "neutral" /\ last.ret = Frac(1, 2)) =>
                  /\ RLt(R(0), CurrentHistogram)
                  /\ RLt(Magnitude(PreviousHistogram), Magnitude(CurrentHistogram))
            /\ (d.signal = "neutral" /\ last.ret = Frac(-1, 2)) =>
                  /\ RLt(CurrentHistogram, R(0))
                  /\ RLt(Magnitude(PreviousHistogram), Magnitude(CurrentHistogram))
            /\ (d.signal = "neutral"
                  /\ RLe(Magnitude(CurrentHistogram), Magnitude(PreviousHistogram))) =>
                  last.ret = R(0)
            /\ d.signal = "buy" =>
                  last.ret = (IF RLt(d.macd_line, R(0)) /\ RLt(d.signal_line, R(0))
                              THEN R(2) ELSE Frac(3, 2))
            /\ d.signal = "sell" =>
                  last.ret = (IF RLt(R(0), d.macd_line) /\ RLt(R(0), d.signal_line)
                              THEN R(-2) ELSE Frac(-3, 2))

-----------------------------------------------------------------------------
(* Moving averages *)

RECURSIVE SumPrices(_, _, _)
SumPrices(p, from, to) == IF from > to THEN 0 ELSE p[to] + SumPrices(p, from, to - 1)

\* pd.Series(prices).rolling(window).mean() at the 1-based index t
rolling_mean(p, window, t) ==
    IF t < window THEN NaN ELSE Frac(SumPrices(p, t - window + 1, t), window)

\* the cross test that needs the short average strictly on the other side before
ma_cross_strict(short_current, long_current, short_previous, long_previous) ==
    IF RLt(long_current, short_current) /\ RLt(short_previous, long_previous)
    THEN "golden_cross"
    ELSE IF RLt(short_current, long_current) /\ RLt(long_previous, short_previous)
    THEN "death_cross"
    ELSE IF RLt(long_current, short_current) THEN "above"
    ELSE "below"

\* the signal from the current and the previous pair of averages
ma_cross(short_current, long_current, short_previous, long_previous) ==
    IF RLt(long_current, short_current) /\ RLe(short_previous, long_previous)
    THEN "golden_cross"
    ELSE IF RLt(short_current, long_current) /\ RLe(long_previous, short_previous)
    THEN "death_cross"
    ELSE IF RLt(long_current, short_current) THEN "above"
    ELSE "below"

check_moving_averages(p, ma_short, ma_long) ==
    IF Len(p) < ma_long THEN [signal |-> "insufficient_data"]
    ELSE LET n             == Len(p)
             short_current == rolling_mean(p, ma_short, n)
             long_current  == rolling_mean(p, ma_long, n)
         IN  IF IsNaN(short_current) \/ IsNaN(long_current)
             THEN [signal |-> "insufficient_data"]
             ELSE LET current_state == IF RLt(long_current, short_current)
                                       THEN "above" ELSE "below"
                      short_previous == rolling_mean(p, ma_short, n - 1)
                      long_previous  == rolling_mean(p, ma_long, n - 1)
                      signal ==
                          IF n < 3 THEN current_state
                          ELSE IF IsNaN(short_previous) \/ IsNaN(long_previous)
                          THEN current_state
                          ELSE ma_cross(short_current, long_current,
                                        short_previous, long_previous)
                  IN  [ma_short     |-> short_current,
                       ma_long      |-> long_current,
                       signal       |-> signal,
                       golden_cross |-> (signal = "golden_cross"),
                       death_cross  |-> (signal = "death_cross")]

DefaultMaPeriods == <<50, 200>>

\* ma_short and ma_long of the calls
MaPeriods == {<<1, 2>>, <<2, 3>>, DefaultMaPeriods}

CheckMovingAverages ==
    /\ \E per \in MaPeriods :
          last' = [op |-> "check_moving_averages", prices |-> prices, periods |-> per,
                   ret |-> check_moving_averages(prices, per[1], per[2])]
    /\ UNCHANGED <<rm, position, analysis, prices, tracker, web>>

NextMa == CheckMovingAverages

SpecMa == InitSeries /\ [][NextMa]_vars

IsMa == last.op = "check_moving_averages"

ShortCurrent == rolling_mean(last.prices, last.periods[1], Len(last.prices))

LongCurrent == rolling_mean(last.prices, last.periods[2], Len(last.prices))

ShortPrevious == rolling_mean(last.prices, last.periods[1], Len(last.prices) - 1)

LongPrevious == rolling_mean(last.prices, last.periods[2], Len(last.prices) - 1)

\* C13: check_moving_averages returns one signal: golden_cross exactly when the
\* previous short average was <= the previous long one and the current short
\* average is above the current long one, death_cross in the mirrored case,
\* otherwise above or below by the current relation, and insufficient_data with
\* fewer than ma_long samples; the two flags are never both true and each is
\* true exactly when the signal has its value.
C13_OneCrossSignal ==
    IsMa =>
        /\ Len(last.prices) < last.periods[2] => last.ret = [signal |-> "insufficient_data"]
        /\ Len(last.prices) >= last.periods[2] =>
              /\ last.ret.signal \in {"golden_cross", "death_cross", "above", "below"}
              /\ last.ret.signal = "golden_cross" <=>
                    RLe(ShortPrevious, LongPrevious) /\ RLt(LongCurrent, ShortCurrent)
              /\ last.ret.signal = "death_cross" <=>
                    RLe(LongPrevious, ShortPrevious) /\ RLt(ShortCurrent, LongCurrent)
              /\ last.ret.signal = "above" => RLt(LongCurrent, ShortCurrent)
              /\ last.ret.signal = "below" => RLe(ShortCurrent, LongCurrent)
              /\ ~(last.ret.golden_cross /\ last.ret.death_cross)
              /\ last.ret.golden_cross <=> last.ret.signal = "golden_cross"
              /\ last.ret.death_cross <=> last.ret.signal = "death_cross"

\* the averages were equal one sample ago and the short one is above now
C13_Witness ==
    /\ IsMa
    /\ ShortPrevious = LongPrevious /\ ~IsNaN(LongPrevious)
    /\ RLt(LongCurrent, ShortCurrent)
    /\ last.ret.signal = "golden_cross" /\ last.ret.golden_cross /\ ~last.ret.death_cross

-----------------------------------------------------------------------------
(* Support and resistance *)

\* line 225: prices[i] is <= the `window` samples before it and after it
is_local_minimum(p, window, i) ==
    /\ \A k \in (i - window)..(i - 1) : p[i] <= p[k]
    /\ \A k \in (i + 1)..(i + window) : p[i] <= p[k]

\* line 229: prices[i] is >= the `window` samples before it and after it
is_local_maximum(p, window, i) ==
    /\ \A k \in (i - window)..(i - 1) : p[i] >= p[k]
    /\ \A k \in (i + 1)..(i + window) : p[i] >= p[k]

\* support_levels after the loop has visited the positions up to i
RECURSIVE support_levels(_, _, _)
support_levels(p, window, i) ==
    IF i < window + 1 THEN <<>>
    ELSE LET before == support_levels(p, window, i - 1)
         IN  IF is_local_minimum(p, window, i) THEN Append(before, p[i]) ELSE before

\* resistance_levels after the loop has visited the positions up to i
RECURSIVE resistance_levels(_, _, _)
resistance_levels(p, window, i) ==
    IF i < window + 1 THEN <<>>
    ELSE LET before == resistance_levels(p, window, i - 1)
         IN  IF is_local_maximum(p, window, i) THEN Append(before, p[i]) ELSE before

\* lines 237-238: the levels on one side of the current price
RECURSIVE levels_below(_, _)
levels_below(levels, current_price) ==
    IF levels = <<>> THEN <<>>
    ELSE IF Head(levels) < current_price
         THEN <<Head(levels)>> \o levels_below(Tail(levels), current_price)
         ELSE levels_below(Tail(levels), current_price)

RECURSIVE levels_above(_, _)
levels_above(levels, current_price) ==
    IF levels = <<>> THEN <<>>
    ELSE IF Head(levels) > current_price
         THEN <<Head(levels)>> \o levels_above(Tail(levels), current_price)
         ELSE levels_above(Tail(levels), current_price)

\* x put into the ascending list s
RECURSIVE insert_ascending(_, _)
insert_ascending(x, s) ==
    IF s = <<>> THEN <<x>>
    ELSE IF x <= Head(s) THEN <<x>> \o s
         ELSE <<Head(s)>> \o insert_ascending(x, Tail(s))

\* list.sort()
RECURSIVE sort_ascending(_)
sort_ascending(s) ==
    IF s = <<>> THEN <<>> ELSE insert_ascending(Head(s), sort_ascending(Tail(s)))

Reverse(s) == [i \in 1..Len(s) |-> s[Len(s) + 1 - i]]

\* the support list left in the order the loop found it
sort_descending_skipped(s) == s

\* list.sort(reverse=True)
sort_descending(s) == Reverse(sort_ascending(s))

\* levels[:3]
top3(levels) == SubSeq(levels, 1, Min2(3, Len(levels)))

identify_support_resistance(p, window) ==
    IF Len(p) < window * 3 THEN [support |-> <<>>, resistance |-> <<>>]
    ELSE LET current_price == p[Len(p)]
             found_support == support_levels(p, window, Len(p) - window)
             found_resistance == resistance_levels(p, window, Len(p) - window)
         IN  [support    |-> top3(sort_descending(levels_below(found_support, current_price))),
              resistance |-> top3(sort_ascending(levels_above(found_resistance, current_price)))]

DefaultSrWindow == 10

SrWindows == {1, 2, DefaultSrWindow}

IdentifySupportResistance ==
    /\ \E window \in SrWindows :
          last' = [op |-> "identify_support_resistance", prices |-> prices,
                   window |-> window,
                   ret |-> identify_support_resistance(prices, window)]
    /\ UNCHANGED <<rm, position, analysis, prices, tracker, web>>

NextSr == IdentifySupportResistance

SpecSr == InitSeries /\ [][NextSr]_vars

IsSr == last.op = "identify_support_resistance"

\* the positions the loop of identify_support_resistance visits
SrPositions == (last.window + 1)..(Len(last.prices) - last.window)

SrCurrentPrice == last.prices[Len(last.prices)]

\* C14: the support list is sorted descending, has at most 3 entries, all
\* strictly below the most recent price and each a local minimum of the series;
\* the resistance list is sorted ascending, has at most 3 entries, all strictly
\* above the most recent price and each a local maximum; both are empty when
\* the series has fewer than 3 * window samples.
C14_SupportResistanceLists ==
    IsSr =>
        LET sup == last.ret.support
            res == last.ret.resistance
            p   == last.prices
            w   == last.window
        IN  /\ Len(sup) <= 3 /\ Len(res) <= 3
            /\ \A i \in 1..(Len(sup) - 1) : sup[i] >= sup[i + 1]
            /\ \A i \in 1..(Len(res) - 1) : res[i] <= res[i + 1]
            /\ \A i \in 1..Len(sup) :
                  /\ sup[i] < SrCurrentPrice
                  /\ \E j \in SrPositions :
                        /\ p[j] = sup[i]
                        /\ \A k \in ((j - w)..(j + w)) \ {j} : p[j] <= p[k]
            /\ \A i \in 1..Len(res) :
                  /\ res[i] > SrCurrentPrice
                  /\ \E j \in SrPositions :
                        /\ p[j] = res[i]
                        /\ \A k \in ((j - w)..(j + w)) \ {j} : p[j] >= p[k]
            /\ Len(p) < 3 * w => (sup = <<>> /\ res = <<>>)

\* more than three supports below the price were found and a resistance above it
C14_Witness ==
    /\ IsSr
    /\ Len(last.prices) >= 3 * last.window
    /\ Len(levels_below(support_levels(last.prices, last.window,
                                       Len(last.prices) - last.window),
                        SrCurrentPrice)) > 3
    /\ Len(last.ret.support) = 3
    /\ last.ret.resistance # <<>>

-----------------------------------------------------------------------------
(* The advisor's signal strengths (eth_investment_advisor.py) *)

RMin(x, y) == IF RLt(y, x) THEN y ELSE x

RMax(x, y) == IF RLt(x, y) THEN y ELSE x

\* the strength of an extreme reading left without its cap
rsi_cap_missing(strength, limit) == strength

\* lines 98 and 106: min(signal_strength, 2.0), max(signal_strength, -2.0)
rsi_cap(strength, limit) ==
    IF RLt(R(0), limit) THEN RMin(strength, limit) ELSE RMax(strength, limit)

\* ETHInvestmentAdvisor.evaluate_rsi_signal: the signal_strength of its result
evaluate_rsi_signal(rsi_value) ==
    IF RLt(rsi_value, R(30))
    THEN LET strength == RDiv(RSub(R(30), rsi_value), R(10))
         IN  IF RLt(rsi_value, R(20)) THEN rsi_cap(strength, R(2)) ELSE strength
    ELSE IF RLt(R(70), rsi_value)
    THEN LET strength == RDiv(RMul(R(-1), RSub(rsi_value, R(70))), R(10))
         IN  IF RLt(R(80), rsi_value) THEN rsi_cap(strength, R(-2)) ELSE strength
    ELSE IF RLt(rsi_value, R(45)) THEN Frac(3, 10)
    ELSE IF RLt(R(55), rsi_value) THEN Frac(-3, 10)
    ELSE R(0)

\* the strength with every signal that is no cross and not above counted as below
evaluate_moving_averages_else_below(ma_data) ==
    LET signal == Get(ma_data, "signal", "")
    IN  IF signal = "golden_cross" THEN R(2)
        ELSE IF signal = "death_cross" THEN R(-2)
        ELSE IF signal = "above" THEN R(1)
        ELSE R(-1)

\* ETHInvestmentAdvisor.evaluate_moving_averages: the signal_strength
evaluate_moving_averages(ma_data) ==
    LET signal == Get(ma_data, "signal", "")
    IN  IF signal = "golden_cross" THEN R(2)
        ELSE IF signal = "death_cross" THEN R(-2)
        ELSE IF signal = "above" THEN R(1)
        ELSE IF signal = "below" THEN R(-1)
        ELSE R(0)

RECURSIVE SeqMax(_)
SeqMax(s) == IF Len(s) = 1 THEN s[1] ELSE Max2(s[1], SeqMax(Tail(s)))

RECURSIVE SeqMin(_)
SeqMin(s) == IF Len(s) = 1 THEN s[1] ELSE Min2(s[1], SeqMin(Tail(s)))

\* (price - closest_support) / price * 100
support_distance(price, support) ==
    RMul(Frac(price - SeqMax(support), price), R(100))

\* (closest_resistance - price) / price * 100
resistance_distance(price, resistance) ==
    RMul(Frac(SeqMin(resistance) - price, price), R(100))

\* ETHInvestmentAdvisor.evaluate_support_resistance: the signal_strength
evaluate_support_resistance(price, sr_levels) ==
    LET support    == Get(sr_levels, "support", <<>>)
        resistance == Get(sr_levels, "resistance", <<>>)
        after_support ==
            IF support = <<>> THEN R(0)
            ELSE LET d == support_distance(price, support)
                 IN  IF RLt(d, R(1)) THEN Frac(3, 2)
                     ELSE IF RLt(d, R(3)) THEN R(1)
                     ELSE IF RLt(d, R(5)) THEN Frac(1, 2)
                     ELSE R(0)
    IN  IF resistance = <<>> THEN after_support
        ELSE LET d == resistance_distance(price, resistance)
             IN  IF RLt(d, R(1)) THEN Frac(-3, 2)
                 ELSE IF RLt(d, R(3))
                 THEN (IF RLt(after_support, Frac(3, 2)) THEN R(-1) ELSE after_support)
                 ELSE IF RLt(d, R(5))
                 THEN (IF RLt(after_support, R(1)) THEN Frac(-1, 2) ELSE after_support)
                 ELSE after_support

\* RSI readings 0, 0.5, 1, ..., 100
RsiGrid == {Frac(k, 2) : k \in 0..200}

AdvisorPrices == {1000}

\* distances of the levels from the price, in tenths of a percent
LevelOffsets == {2, 8, 10, 20, 30, 40, 50, 60}

NearOffsets == {2, 8, 20}

SupportLevel(price, k) == (price * (1000 - k)) \div 1000

ResistanceLevel(price, k) == (price * (1000 + k)) \div 1000

\* support lists as identify_support_resistance returns them: below the price
AdvisorSupports(price) ==
    {<<>>} \cup {<<SupportLevel(price, k)>> : k \in LevelOffsets}
           \cup {<<SupportLevel(price, j), SupportLevel(price, k)>> : j, k \in NearOffsets}

\* resistance lists as identify_support_resistance returns them: above the price
AdvisorResistances(price) ==
    {<<>>} \cup {<<ResistanceLevel(price, k)>> : k \in LevelOffsets}
           \cup {<<ResistanceLevel(price, j), ResistanceLevel(price, k)>> : j, k \in NearOffsets}

EvaluateRsiSignal ==
    /\ \E rsi_value \in RsiGrid :
          last' = [op |-> "evaluate_rsi_signal", rsi_value |-> rsi_value,
                   ret |-> evaluate_rsi_signal(rsi_value)]
    /\ UNCHANGED <<rm, position, analysis, prices, tracker, web>>

EvaluateSupportResistance ==
    /\ \E price \in AdvisorPrices :
         \E support \in AdvisorSupports(price), resistance \in AdvisorResistances(price) :
            LET sr_levels == [support |-> support, resistance |-> resistance]
            IN  last' = [op |-> "evaluate_support_resistance", price |-> price,
                         sr_levels |-> sr_levels,
                         ret |-> evaluate_support_resistance(price, sr_levels)]
    /\ UNCHANGED <<rm, position, analysis, prices, tracker, web>>

NextAdvisor == EvaluateRsiSignal \/ EvaluateSupportResistance

SpecAdvisor == Init /\ [][NextAdvisor]_vars

IsRsiVote == last.op = "evaluate_rsi_signal"

\* C15: evaluate_rsi_signal maps an RSI of 0..100 to (30 - rsi)/10 capped at +2
\* below 30, to -(rsi - 70)/10 capped at -2 above 70, to +0.3 on [30, 45), to
\* -0.3 on (55, 70] and to 0 on [45, 55]; the strength lies in [-2, +2].
C15_RsiStrength ==
    IsRsiVote =>
        LET rsi == last.rsi_value
            s   == last.ret
        IN  /\ RLe(R(-2), s) /\ RLe(s, R(2))
            /\ RLt(rsi, R(30)) =>
                  s = RMin(RDiv(RSub(R(30), rsi), R(10)), R(2))
            /\ RLt(R(70), rsi) =>
                  s = RMax(RDiv(RSub(R(70), rsi), R(10)), R(-2))
            /\ (RLe(R(30), rsi) /\ RLt(rsi, R(45))) => s = Frac(3, 10)
            /\ (RLt(R(55), rsi) /\ RLe(rsi, R(70))) => s = Frac(-3, 10)
            /\ (RLe(R(45), rsi) /\ RLe(rsi, R(55))) => s = R(0)

\* an RSI of 4.5, whose uncapped strength would be 2.55
C15_Witness ==
    /\ IsRsiVote
    /\ last.rsi_value = Frac(9, 2)
    /\ last.ret = R(2)

IsSrVote == last.op = "evaluate_support_resistance"

\* 1, 2 or 3 for a distance below 1%, 3%, 5%; 4 beyond
Tier(d) == IF RLt(d, R(1)) THEN 1 ELSE IF RLt(d, R(3)) THEN 2 ELSE IF RLt(d, R(5)) THEN 3 ELSE 4

TierValue(t) == IF t = 1 THEN Frac(3, 2) ELSE IF t = 2 THEN R(1) ELSE Frac(1, 2)

\* C17: with the nearest support and the nearest resistance both within 5% of
\* the price, whenever the support is strictly closer than the resistance or of
\* a strictly stronger tier, the result is the support's positive tier value
\* (the resistance vote replaces a weaker support signal only).
C17_SupportNotOverridden ==
    (IsSrVote /\ last.sr_levels.support # <<>> /\ last.sr_levels.resistance # <<>>) =>
        LET ds == support_distance(last.price, last.sr_levels.support)
            dr == resistance_distance(last.price, last.sr_levels.resistance)
        IN  (Tier(ds) <= 3 /\ Tier(dr) <= 3 /\ (RLt(ds, dr) \/ Tier(ds) < Tier(dr))) =>
               last.ret = TierValue(Tier(ds))

-----------------------------------------------------------------------------
(* analyze_price_data and the advisor on series too short for the indicators *)

ShortLens == {1, 2, 14, 15, 20, 29, 30, 34}

ShortTurns == {1, 8, 12, 16, 20}

ShortBases == {100, 1000}

\* a series that falls (dir = 1) or rises (dir = -1) by 1 a sample to its
\* turning point and then comes back; constant for dir = 0
Vee(len, turn, base, dir) == [i \in 1..len |-> base + dir * Abs(i - turn)]

ShortSeries ==
    {Vee(len, turn, base, dir) :
        len \in ShortLens, turn \in ShortTurns, base \in ShortBases, dir \in {-1, 0, 1}}

InitShort ==
    /\ portfolio_value = R(10000)
    /\ max_risk_per_trade = Frac(2, 100)
    /\ max_portfolio_exposure = Frac(25, 100)
    /\ last = [op |-> "init"]
    /\ position = NoPosition
    /\ analysis = NoAnalysis
    /\ prices \in ShortSeries
    /\ trades = <<>>
    /\ decisions = <<>>
    /\ files = NoFiles
    /\ blob = NoFile
    /\ requests = NoRequests

\* ETHTechnicalAnalysis.analyze_price_data on df["price"].values = prices;
\* `last` keeps the indicator results the scores were computed from
AnalyzePriceSeries ==
    /\ prices # <<>>
    /\ LET current_price == prices[Len(prices)]
           rsi         == calculate_rsi(prices, DefaultRsiWindow)
           macd_result == calculate_macd(prices, DefaultMacdPeriods[1],
                                         DefaultMacdPeriods[2], DefaultMacdPeriods[3])
           ma_result   == check_moving_averages(prices, DefaultMaPeriods[1],
                                                DefaultMaPeriods[2])
           sr_levels   == identify_support_resistance(prices, DefaultSrWindow)
           buy  == buy_signals(rsi, macd_result.signal, ma_result.signal,
                               sr_levels.support, current_price)
           sell == sell_signals(rsi, macd_result.signal, ma_result.signal,
                                sr_levels.resistance, current_price)
       IN  /\ analysis' = [empty |-> FALSE, price |-> current_price, rsi |-> rsi,
                           macd_signal |-> macd_result.signal,
                           golden_cross |-> Get(ma_result, "golden_cross", FALSE),
                           death_cross |-> Get(ma_result, "death_cross", FALSE),
                           support_levels |-> sr_levels.support,
                           resistance_levels |-> sr_levels.resistance,
                           buy_score |-> buy, sell_score |-> sell,
                           recommendation |-> recommendation(buy, sell)]
           /\ last' = [op |-> "analyze_price_data", price |-> current_price,
                       rsi |-> rsi, macd_result |-> macd_result,
                       ma_result |-> ma_result, sr_levels |-> sr_levels]
    /\ UNCHANGED <<rm, position, prices, tracker, web>>

\* the advisor's evaluate_* methods on the indicator results of the analysis
EvaluateIndicatorSignals ==
    /\ last.op = "analyze_price_data"
    /\ last' = [op |-> "evaluate_signals", price |-> last.price,
                rsi |-> last.rsi, macd_result |-> last.macd_result,
                ma_result |-> last.ma_result, sr_levels |-> last.sr_levels,
                rsi_strength  |-> evaluate_rsi_signal(last.rsi),
                macd_strength |-> evaluate_macd_signal(last.macd_result),
                ma_strength   |-> evaluate_moving_averages(last.ma_result),
                sr_strength   |-> evaluate_support_resistance(last.price, last.sr_levels)]
    /\ UNCHANGED <<rm, position, analysis, prices, tracker, web>>

NextShort == AnalyzePriceSeries \/ EvaluateIndicatorSignals

SpecShort == InitShort /\ [][NextShort]_vars

IsAnalysed == last.op \in {"analyze_price_data", "evaluate_signals"}

IsEvaluated == last.op = "evaluate_signals"

NoLevels == [support |-> <<>>, resistance |-> <<>>]

\* the buy and sell score of the RSI alone, of the support/resistance lists alone
RsiBuy == buy_signals(last.rsi, "neutral", "insufficient_data", <<>>, last.price)

RsiSell == sell_signals(last.rsi, "neutral", "insufficient_data", <<>>, last.price)

SrBuy == buy_signals(R(50), "neutral", "insufficient_data", last.sr_levels.support, last.price)

SrSell == sell_signals(R(50), "neutral", "insufficient_data", last.sr_levels.resistance, last.price)

\* C18: on a non-empty series shorter than an indicator's minimum length the
\* indicator returns its neutral value (RSI 50, MACD {signal: neutral}, moving
\* averages insufficient_data, empty support and resistance lists) and adds
\* nothing to the buy and sell scores, and its signal strength is 0; a series
\* too short for every indicator has both scores 0 and the label HOLD.
C18_ShortSeriesNeutral ==
    IsAnalysed =>
        LET n == Len(prices)
        IN  /\ n < DefaultRsiWindow + 1 =>
                  /\ last.rsi = R(50)
                  /\ RsiBuy = R(0) /\ RsiSell = R(0)
                  /\ IsEvaluated => last.rsi_strength = R(0)
            /\ n < DefaultMacdPeriods[2] + DefaultMacdPeriods[3] =>
                  /\ last.macd_result = [signal |-> "neutral"]
                  /\ IsEvaluated => last.macd_strength = R(0)
            /\ n < DefaultMaPeriods[2] =>
                  /\ last.ma_result = [signal |-> "insufficient_data"]
                  /\ ~analysis.golden_cross /\ ~analysis.death_cross
                  /\ IsEvaluated => last.ma_strength = R(0)
            /\ n < 3 * DefaultSrWindow =>
                  /\ last.sr_levels = NoLevels
                  /\ SrBuy = R(0) /\ SrSell = R(0)
                  /\ IsEvaluated => last.sr_strength = R(0)
            /\ analysis.buy_score = RAdd(RsiBuy, SrBuy)
            /\ analysis.sell_score = RAdd(RsiSell, SrSell)
            /\ n < DefaultRsiWindow + 1 =>
                  /\ analysis.buy_score = R(0) /\ analysis.sell_score = R(0)
                  /\ analysis.recommendation = "HOLD"

\* 14 rising samples, one short of the RSI's minimum: scored and evaluated
C18_Witness ==
    /\ IsEvaluated
    /\ Len(prices) = DefaultRsiWindow
    /\ \A i \in 1..(Len(prices) - 1) : prices[i] < prices[i + 1]
    /\ last.rsi = R(50) /\ last.rsi_strength = R(0)
    /\ analysis.buy_score = R(0) /\ analysis.sell_score = R(0)
    /\ analysis.recommendation = "HOLD"

\* 30 samples: the RSI and the support levels count, MACD and averages do not
C18_WitnessPartial ==
    /\ IsEvaluated
    /\ Len(prices) = 3 * DefaultSrWindow
    /\ last.sr_levels.support # <<>>
    /\ analysis.buy_score = Frac(3, 2)
    /\ last.macd_strength = R(0) /\ last.ma_strength = R(0)

-----------------------------------------------------------------------------
(* The performance tracker (eth_performance_tracker.py) *)

MaxTrades == 2

MaxDecisions == 2

\* a file whose writing stopped after open(..., 'w') had truncated it
CorruptFile == [exists |-> TRUE, readable |-> FALSE]

\* the file json.dump(records, f, indent=4) writes
json_dump(records) == [exists |-> TRUE, readable |-> TRUE, json |-> records]

\* _load_trades, _load_decisions: json.load of the file, [] without a readable file
load_records(file) == IF file.exists /\ file.readable THEN file.json ELSE <<>>

\* how _save_trades / _save_decisions end: the file is written, open() raises,
\* or json.dump raises after the file was truncated
SaveOutcomes == {"saved", "open_failed", "dump_failed"}

save_records(file, records, outcome) ==
    IF outcome = "saved" THEN json_dump(records)
    ELSE IF outcome = "open_failed" THEN file
    ELSE CorruptFile

\* datetime.now(): a clock that advances with every recording
Now == Len(trades) + Len(decisions) + 1

\* str.lower() on the trade types of the calls
Lower(text) == IF text = "SELL" THEN "sell" ELSE IF text = "BUY" THEN "buy" ELSE text

TradeTypes == {"buy", "SELL", "transfer"}

TradePrices == {R(-100), R(100), R(120)}

TradeAmounts == {R(1), Frac(1, 2)}

CurrentTradePrices == {R(100), R(120)}

\* a trade numbered by the clock instead of by its place in the ledger
new_trade_numbered_by_clock(ledger, trade_type, price, amount, date) ==
    [id |-> date, date |-> date, type |-> Lower(trade_type),
     price |-> price, amount |-> amount, value |-> RMul(price, amount), notes |-> ""]

new_trade(ledger, trade_type, price, amount, date) ==
    [id |-> Len(ledger) + 1, date |-> date, type |-> Lower(trade_type),
     price |-> price, amount |-> amount, value |-> RMul(price, amount), notes |-> ""]

\* ETHPerformanceTracker.record_trade(trade_type, price, amount)
RecordTrade ==
    /\ Len(trades) < MaxTrades
    /\ \E trade_type \in TradeTypes, price \in TradePrices, amount \in TradeAmounts,
          outcome \in SaveOutcomes :
          LET trade == new_trade(trades, trade_type, price, amount, Now)
          IN  /\ trades' = Append(trades, trade)
              /\ files' = [files EXCEPT !.trades = save_records(@, trades', outcome)]
              /\ last' = [op |-> "record_trade", ret |-> trade]
    /\ UNCHANGED <<rm, position, analysis, prices, decisions, web>>

\* the loop of lines 174-180 over the first i trades
RECURSIVE portfolio_totals(_, _)
portfolio_totals(ledger, i) ==
    IF i = 0 THEN [eth_balance |-> R(0), total_invested |-> R(0), total_withdrawn |-> R(0)]
    ELSE LET t     == portfolio_totals(ledger, i - 1)
             trade == ledger[i]
         IN  IF trade.type = "buy"
             THEN [t EXCEPT !.eth_balance = RAdd(@, trade.amount),
                            !.total_invested = RAdd(@, trade.value)]
             ELSE IF trade.type = "sell"
             THEN [t EXCEPT !.eth_balance = RSub(@, trade.amount),
                            !.total_withdrawn = RAdd(@, trade.value)]
             ELSE t

\* lines 175-180: the keys the loop reads from one trade
trade_keys(trade) ==
    IF "type" \notin DOMAIN trade THEN {"type"}
    ELSE IF trade.type \in {"buy", "sell"} THEN {"type", "amount", "value"}
    ELSE {"type"}

\* ETHPerformanceTracker.calculate_portfolio_value (last_updated left out);
\* a missing key raises KeyError and the except clause returns None
calculate_portfolio_value(ledger, current_price) ==
    IF \E i \in 1..Len(ledger) : ~(trade_keys(ledger[i]) \subseteq DOMAIN ledger[i])
    THEN None
    ELSE
    LET t             == portfolio_totals(ledger, Len(ledger))
        current_value == RMul(t.eth_balance, current_price)
        realized_pl   == RSub(t.total_withdrawn, t.total_invested)
        unrealized_pl == RSub(current_value, RSub(t.total_invested, t.total_withdrawn))
        total_pl      == RAdd(realized_pl, unrealized_pl)
        roi           == IF RLt(R(0), t.total_invested)
                         THEN RDiv(total_pl, t.total_invested) ELSE R(0)
    IN  [eth_balance     |-> t.eth_balance,
         total_invested  |-> t.total_invested,
         total_withdrawn |-> t.total_withdrawn,
         current_value   |-> current_value,
         realized_pl     |-> realized_pl,
         unrealized_pl   |-> unrealized_pl,
         total_pl        |-> total_pl,
         roi             |-> roi,
         current_price   |-> current_price]

CalculatePortfolioValue ==
    /\ \E current_price \in CurrentTradePrices :
          last' = [op |-> "calculate_portfolio_value", current_price |-> current_price,
                   ret |-> calculate_portfolio_value(trades, current_price)]
    /\ UNCHANGED <<rm, position, analysis, prices, tracker, web>>

NextLedger == RecordTrade \/ CalculatePortfolioValue

SpecLedger == Init /\ [][NextLedger]_vars

IsPortfolio == last.op = "calculate_portfolio_value"

\* the sum of one field over the trades of one type
RECURSIVE SumOf(_, _, _)
SumOf(ledger, type, field) ==
    IF ledger = <<>> THEN R(0)
    ELSE RAdd(IF Head(ledger).type = type THEN Head(ledger)[field] ELSE R(0),
              SumOf(Tail(ledger), type, field))

\* C19: calculate_portfolio_value returns eth_balance = buy amounts - sell
\* amounts, realized_pl = sell values - buy values, unrealized_pl = eth_balance
\* * current price - (buy values - sell values), and roi = total_pl /
\* total_invested, with roi = 0 when total_invested is 0.
C19_PortfolioFormulas ==
    IsPortfolio =>
        LET r          == last.ret
            buy_amount == SumOf(trades, "buy", "amount")
            sell_amount == SumOf(trades, "sell", "amount")
            buy_value  == SumOf(trades, "buy", "value")
            sell_value == SumOf(trades, "sell", "value")
        IN  /\ r.eth_balance = RSub(buy_amount, sell_amount)
            /\ r.total_invested = buy_value
            /\ r.realized_pl = RSub(sell_value, buy_value)
            /\ r.unrealized_pl = RSub(RMul(r.eth_balance, last.current_price),
                                      RSub(buy_value, sell_value))
            /\ r.roi = (IF IsZero(r.total_invested) THEN R(0)
                        ELSE RDiv(r.total_pl, r.total_invested))

-----------------------------------------------------------------------------
(* The decision log and calculate_performance_metrics *)

Recommendations == {"BUY", "SELL", "HOLD", "STRONG BUY", "STRONG SELL"}

DecisionPrices == {R(100), R(103), R(110)}

\* the date argument: an earlier date given by the caller, or None for now
DecisionDates == {0, Now}

\* a trades file left by an earlier run: one buy of 1 ETH at 100
StoredTradeFiles == {NoFile, json_dump(<<new_trade(<<>>, "buy", R(100), R(1), 0)>>)}

\* ETHPerformanceTracker.__init__ on the files of an earlier run
InitTracker ==
    /\ portfolio_value = R(10000)
    /\ max_risk_per_trade = Frac(2, 100)
    /\ max_portfolio_exposure = Frac(25, 100)
    /\ last = [op |-> "init"]
    /\ position = NoPosition
    /\ analysis = NoAnalysis
    /\ prices = <<>>
    /\ \E file \in StoredTradeFiles :
          /\ files = [trades |-> file, decisions |-> NoFile]
          /\ trades = load_records(file)
    /\ decisions = <<>>
    /\ blob = NoFile
    /\ requests = NoRequests

\* ETHPerformanceTracker.record_decision(recommendation, price, analysis_data, date)
RecordDecision ==
    /\ Len(decisions) < MaxDecisions
    /\ \E rec \in Recommendations, price \in DecisionPrices, date \in DecisionDates,
          outcome \in SaveOutcomes :
          LET decision == [id |-> Len(decisions) + 1, date |-> date,
                           recommendation |-> rec, price |-> price,
                           analysis |-> analysis]
          IN  /\ decisions' = Append(decisions, decision)
              /\ files' = [files EXCEPT !.decisions = save_records(@, decisions', outcome)]
              /\ last' = [op |-> "record_decision", ret |-> decision]
    /\ UNCHANGED <<rm, position, analysis, prices, trades, web>>

\* the record x put into the list s that is sorted by date, after its equals
RECURSIVE insert_by_date(_, _)
insert_by_date(x, s) ==
    IF s = <<>> THEN <<x>>
    ELSE IF x.date < Head(s).date THEN <<x>> \o s
         ELSE <<Head(s)>> \o insert_by_date(x, Tail(s))

\* DataFrame.sort_values("date"): records of equal date keep their order
RECURSIVE sort_by_date(_)
sort_by_date(s) ==
    IF s = <<>> THEN <<>>
    ELSE insert_by_date(s[Len(s)], sort_by_date(SubSeq(s, 1, Len(s) - 1)))

\* line 338: the relative price change from a decision to the next price
price_change(decision, next_price) == RDiv(RSub(next_price, decision.price), decision.price)

\* the test with the direction of the label alone: STRONG BUY counts as BUY
decision_correct_by_direction(rec, change) ==
    \/ rec \in {"BUY", "STRONG BUY"} /\ RLt(Frac(2, 100), change)
    \/ rec \in {"SELL", "STRONG SELL"} /\ RLt(change, Frac(-2, 100))
    \/ rec = "HOLD" /\ RLt(change, Frac(5, 100)) /\ RLt(Frac(-5, 100), change)

\* lines 341-343: the test that counts a decision as correct
decision_correct(rec, change) ==
    \/ rec = "BUY" /\ RLt(Frac(2, 100), change)
    \/ rec = "SELL" /\ RLt(change, Frac(-2, 100))
    \/ rec = "HOLD" /\ RLt(change, Frac(5, 100)) /\ RLt(Frac(-5, 100), change)

\* correct_decisions after the loop of line 334 has run i times
RECURSIVE correct_decisions(_, _)
correct_decisions(log, i) ==
    IF i = 0 THEN 0
    ELSE correct_decisions(log, i - 1)
         + (IF decision_correct(log[i].recommendation, price_change(log[i], log[i + 1].price))
            THEN 1 ELSE 0)

\* the trades of one type
RECURSIVE count_type(_, _)
count_type(ledger, type) ==
    IF ledger = <<>> THEN 0
    ELSE (IF Head(ledger).type = type THEN 1 ELSE 0) + count_type(Tail(ledger), type)

\* ETHPerformanceTracker.calculate_performance_metrics: the trade counts, the
\* profit figures and the decision accuracy (the time-based and volatility
\* figures are left out); the counters of the accuracy loop are kept in the
\* result
calculate_performance_metrics(ledger, log, current_price) ==
    LET portfolio == calculate_portfolio_value(ledger, current_price)
        basic == [total_trades   |-> Len(ledger),
                  buy_trades     |-> count_type(ledger, "buy"),
                  sell_trades    |-> count_type(ledger, "sell"),
                  realized_pl    |-> portfolio.realized_pl,
                  unrealized_pl  |-> portfolio.unrealized_pl,
                  total_pl       |-> portfolio.total_pl,
                  roi            |-> portfolio.roi,
                  roi_percentage |-> RMul(portfolio.roi, R(100))]
        ordered == sort_by_date(log)
        total_evaluated == Len(ordered) - 1
        correct == correct_decisions(ordered, total_evaluated)
    IN  IF ledger = <<>>
        THEN [error |-> "No trade history available for performance calculation"]
        ELSE IF log = <<>> THEN basic
        ELSE IF total_evaluated > 0
        THEN basic @@ [correct_decisions |-> correct, total_evaluated |-> total_evaluated,
                       decision_accuracy |-> Frac(correct, total_evaluated)]
        ELSE basic @@ [correct_decisions |-> correct, total_evaluated |-> total_evaluated]

CalculatePerformanceMetrics ==
    /\ \E current_price \in CurrentTradePrices :
          last' = [op |-> "calculate_performance_metrics", current_price |-> current_price,
                   ret |-> calculate_performance_metrics(trades, decisions, current_price)]
    /\ UNCHANGED <<rm, position, analysis, prices, tracker, web>>

NextDecisions == RecordDecision \/ CalculatePerformanceMetrics

SpecDecisions == InitTracker /\ [][NextDecisions]_vars

IsMetrics == last.op = "calculate_performance_metrics"

\* the decisions in date order
Ordered == sort_by_date(decisions)

\* the price the i-th decision in date order is compared with
NextPrice(i) == IF i < Len(Ordered) THEN Ordered[i + 1].price ELSE last.current_price

CorrectSet ==
    {i \in 1..Len(Ordered) :
        decision_correct(Ordered[i].recommendation, price_change(Ordered[i], NextPrice(i)))}

\* C20: the decision accuracy of calculate_performance_metrics evaluates every
\* decision in date order, each against its successor's price and the last one
\* against the supplied current price, so as many decisions are evaluated as
\* there are decisions, and the correct ones are those with BUY and a change
\* above +2%, SELL and a change below -2%, or HOLD and a change within 5%.
C20_EveryDecisionEvaluated ==
    (IsMetrics /\ trades # <<>> /\ decisions # <<>>) =>
        /\ last.ret.total_evaluated = Len(decisions)
        /\ last.ret.correct_decisions = Cardinality(CorrectSet)
        /\ last.ret.decision_accuracy = Frac(Cardinality(CorrectSet), Len(decisions))

-----------------------------------------------------------------------------
(* Recording trades and decisions on one tracker *)

MaxRecords == 2

\* any sequence of record_trade and record_decision calls, MaxRecords at most
NextRecord ==
    /\ Len(trades) + Len(decisions) < MaxRecords
    /\ (RecordTrade \/ RecordDecision)

SpecRecord == Init /\ [][NextRecord]_vars

\* s is q with one record added at its end
Appended(q, s) == Len(s) = Len(q) + 1 /\ SubSeq(s, 1, Len(q)) = q

\* C21: every record_trade and record_decision call adds exactly one record at
\* the end of its list and leaves the earlier records and the other list as
\* they were; the k-th record of each list has id k, and every trade has
\* value = price * amount.
C21_AppendOnly ==
    [][/\ last'.op = "record_trade" =>
            /\ Appended(trades, trades') /\ decisions' = decisions
            /\ trades'[Len(trades')] = last'.ret
       /\ last'.op = "record_decision" =>
            /\ Appended(decisions, decisions') /\ trades' = trades
            /\ decisions'[Len(decisions')] = last'.ret
       /\ \A k \in 1..Len(trades') :
            /\ trades'[k].id = k
            /\ trades'[k].value = RMul(trades'[k].price, trades'[k].amount)
       /\ \A k \in 1..Len(decisions') : decisions'[k].id = k]_vars

\* a decision recorded after a trade of half a coin
C21_Witness ==
    /\ last.op = "record_decision"
    /\ Len(trades) = 1 /\ Len(decisions) = 1
    /\ trades[1].amount = Frac(1, 2) /\ trades[1].value = R(60)
    /\ decisions[1].id = 1

\* C22: every trade of the ledger has a positive amount and price and the type
\* buy or sell, whatever the arguments of the record_trade calls were.
C22_TradesValidated ==
    \A k \in 1..Len(trades) :
        /\ RLt(R(0), trades[k].amount)
        /\ RLt(R(0), trades[k].price)
        /\ trades[k].type \in {"buy", "sell"}

\* C23: after any sequence of record_trade and record_decision calls that
\* returned a record, a fresh tracker on the same files loads trades and
\* decisions equal, field for field, to the lists in memory, also when a save
\* step failed.
C23_ReloadEqualsMemory ==
    /\ load_records(files.trades) = trades
    /\ load_records(files.decisions) = decisions


-----------------------------------------------------------------------------
(* calculate_stop_loss: which methods a history yields *)

HistoryLen == IF last.history.present THEN Len(last.history.price) ELSE 0
SupportsBelowEntry ==
    {v \in {last.history.price[i] :
                i \in support_positions(last.history.price)} :
        RLt(R(v), last.entry)}

\* C24: for every history of at least 14 samples calculate_stop_loss holds an
\* atr_based method whose stop price is a defined number,
\* entry - atr_multiplier * ATR (at exactly 14 samples too); with fewer
\* samples or no history neither atr_based nor support_based is present;
\* support_based appears only with at least 30 samples and a local minimum
\* strictly below the entry, and its stop is the highest such minimum.
C24_AtrStopDefined ==
    (IsStopLoss /\ ~IsZero(last.entry)) =>
        /\ HistoryLen >= AtrPeriod =>
              /\ HasMethod("atr_based")
              /\ ~IsNaN(Methods["atr_based"].stop_price)
              /\ Methods["atr_based"].stop_price =
                    RSub(last.entry,
                         RMul(average_true_range(last.history.price), R(2)))
        /\ HistoryLen < AtrPeriod =>
              ~HasMethod("atr_based") /\ ~HasMethod("support_based")
        /\ HasMethod("support_based") =>
              /\ HistoryLen >= SupportMinLen
              /\ SupportsBelowEntry # {}
              /\ Methods["support_based"].stop_price =
                    R(SetMax(SupportsBelowEntry))


-----------------------------------------------------------------------------
(* calculate_position_size: the reported risk *)

RiskBudget == RMul(portfolio_value, max_risk_per_trade)
RiskTaken == RMul(last.ret.position_size_coins, last.ret.risk_per_coin)

\* C25: in every successful sizing result the reported risk_amount is the
\* risk of the returned position, position_size_coins * risk_per_coin, also
\* when the exposure clamp reduced the position, and so it never exceeds
\* portfolio_value * max_risk_per_trade.
C25_RiskAmountIsRiskTaken ==
    SizingSucceeded =>
        /\ last.ret.risk_amount = RiskTaken
        /\ RLe(last.ret.risk_amount, RiskBudget)


-----------------------------------------------------------------------------
(* calculate_portfolio_value: the total profit and loss *)

SingleBuyAtCurrentPrice ==
    /\ IsPortfolio
    /\ Len(trades) = 1
    /\ trades[1].type = "buy"
    /\ trades[1].price = last.current_price

\* C26: calculate_portfolio_value reports total_pl = eth_balance * current
\* price + total_withdrawn - total_invested for every ledger; after a single
\* buy at the current price total_pl and roi are both 0.
C26_TotalPlIdentity ==
    /\ IsPortfolio =>
          last.ret.total_pl =
              RSub(RAdd(RMul(last.ret.eth_balance, last.current_price),
                        last.ret.total_withdrawn),
                   last.ret.total_invested)
    /\ SingleBuyAtCurrentPrice =>
          IsZero(last.ret.total_pl) /\ IsZero(last.ret.roi)


-----------------------------------------------------------------------------
(* The web application: record_trade on the stored ledger eth_trades.json *)

\* a price or amount of the request body that float() rejects
NotNumeric == [text |-> "abc"]

\* float(price), float(amount) of lines 226-227: the number, or ValueError
ValueError == [raised |-> "ValueError"]
to_float(x) == IF "n" \in DOMAIN x THEN Norm(x.n, x.d) ELSE ValueError

WebTradeTypes == {"buy", "sell"}
WebPrices == {R(100), NotNumeric}
WebAmounts == {R(1), Frac(1, 2)}
TransferOutcomes == {"done", "raised"}

\* the dictionary of lines 224-231; the timestamp tells the requests apart
web_trade(trade_type, price, amount, timestamp) ==
    [type |-> trade_type, price |-> to_float(price), amount |-> to_float(amount),
     timestamp |-> timestamp]

\* the stored ledger when the web application starts: nothing, or the file
\* written by one ETHPerformanceTracker.record_trade
InitWeb ==
    /\ portfolio_value = R(10000)
    /\ max_risk_per_trade = Frac(2, 100)
    /\ max_portfolio_exposure = Frac(25, 100)
    /\ last = [op |-> "init"]
    /\ position = NoPosition
    /\ analysis = NoAnalysis
    /\ prices = <<>>
    /\ trades = <<>>
    /\ decisions = <<>>
    /\ files = NoFiles
    /\ blob \in StoredTradeFiles
    /\ requests = NoRequests

Returned(r, result) ==
    /\ requests' = [requests EXCEPT ![r] = [pc |-> "returned", ret |-> result.ret,
                                            trade |-> result.trade]]
    /\ last' = [op |-> "web_record_trade", request |-> r, ret |-> result.ret]

\* record_trade, lines 210-234: the stored ledger is downloaded and the new
\* trade is appended to the request's own copy
WebDownload(r) ==
    /\ requests[r].pc = "idle"
    /\ \E trade_type \in WebTradeTypes, price \in WebPrices, amount \in WebAmounts,
          outcome \in TransferOutcomes :
          IF outcome = "raised" \/ ValueError \in {to_float(price), to_float(amount)}
          THEN /\ Returned(r, [ret |-> FALSE, trade |-> None])
          ELSE LET trade == web_trade(trade_type, price, amount, r)
               IN  /\ requests' = [requests EXCEPT ![r] =
                          [pc |-> "appended", trade |-> trade,
                           trades |-> Append(load_records(blob), trade)]]
                   /\ last' = [op |-> "download", request |-> r]
    /\ UNCHANGED <<rm, position, analysis, prices, tracker, blob>>

\* record_trade, lines 236-246: the request's copy replaces the stored ledger
WebUpload(r) ==
    /\ requests[r].pc = "appended"
    /\ \E outcome \in TransferOutcomes :
          IF outcome = "raised"
          THEN /\ Returned(r, [ret |-> FALSE, trade |-> requests[r].trade])
               /\ UNCHANGED blob
          ELSE /\ blob' = json_dump(requests[r].trades)
               /\ Returned(r, [ret |-> TRUE, trade |-> requests[r].trade])
    /\ UNCHANGED <<rm, position, analysis, prices, tracker>>

\* the scheduled analysis: the stored ledger becomes performance_tracker.trades
LoadTrades ==
    /\ trades' = load_records(blob)
    /\ last' = [op |-> "load_trades"]
    /\ UNCHANGED <<rm, position, analysis, prices, decisions, files, web>>

NextWeb ==
    \/ \E r \in Requests : WebDownload(r)
    \/ \E r \in Requests : WebUpload(r)
    \/ LoadTrades
    \/ CalculatePortfolioValue

SpecWeb == InitWeb /\ [][NextWeb]_vars

Stored == load_records(blob)
InStored(trade) == \E i \in 1..Len(Stored) : Stored[i] = trade

\* C27: when two record_trade requests of the web application run
\* concurrently on the same stored ledger, every request that returned
\* success has its trade in the stored ledger afterwards, under every
\* interleaving of the downloads and uploads.
C27_NoLostTrade ==
    \A r \in Requests :
        (requests[r].pc = "returned" /\ requests[r].ret) => InStored(requests[r].trade)

\* C28: every trade of the stored ledger, whichever record_trade wrote it,
\* carries id, type, amount and value with value = price * amount, and so
\* calculate_portfolio_value over the loaded ledger returns a portfolio
\* result, never the error value None.
C28_StoredTradesEvaluable ==
    /\ \A i \in 1..Len(Stored) :
          /\ {"id", "type", "amount", "value"} \subseteq DOMAIN Stored[i]
          /\ Stored[i].value = RMul(Stored[i].price, Stored[i].amount)
    /\ IsPortfolio => last.ret # None


-----------------------------------------------------------------------------
(* evaluate_rsi_signal: the strength against the reading *)

\* both readings on the same side of 50, a the lower one
SameSide(a, b) ==
    /\ RLt(a, b)
    /\ RLe(b, R(50)) \/ RLe(R(50), a)

\* C29: the RSI vote grows with how extreme the reading is: for two readings
\* a < b <= 50 the strength at a is at least the strength at b, and for
\* 50 <= a < b likewise (a lower RSI never gives a weaker buy vote, a higher
\* RSI never gives a weaker sell vote).
C29_RsiStrengthMonotone ==
    IsRsiVote =>
        \A b \in RsiGrid :
            SameSide(last.rsi_value, b) => RLe(evaluate_rsi_signal(b), last.ret)


-----------------------------------------------------------------------------
(* calculate_performance_metrics: the labels the accuracy counts *)

\* the decisions the accuracy loop visits: those with a following decision
Evaluated == 1..(Len(Ordered) - 1)

FollowingChange(i) == price_change(Ordered[i], Ordered[i + 1].price)

PlainLabels == {"BUY", "SELL", "HOLD"}

\* the evaluated decisions with a plain label that the price change bears out
PlainCorrect ==
    {i \in Evaluated :
        LET rec    == Ordered[i].recommendation
            change == FollowingChange(i)
        IN  /\ rec \in PlainLabels
            /\ rec = "BUY" => RLt(Frac(2, 100), change)
            /\ rec = "SELL" => RLt(change, Frac(-2, 100))
            /\ rec = "HOLD" =>
                  RLt(Frac(-5, 100), change) /\ RLt(change, Frac(5, 100))}

=============================================================================
